---- MODULE Spec2Model ----
(***************************************************************************)
(* The recurrent decoding loop of neuralmonkey's Decoder                   *)
(* (neuralmonkey/decoders/decoder.py): the Loop State threaded through     *)
(* tf.while_loop, the halt test, the step function (body), the             *)
(* finalisation of the loop and the outputs derived from the emitted       *)
(* logits.  One behaviour is one unroll of Decoder._decoding_loop.         *)
(*                                                                         *)
(* Learned, real-valued computations (embedding, recurrent cells, linear   *)
(* layers, attention energies) are opaque: the logits a step emits are a   *)
(* free choice among LogitVectors, recurrent outputs and attention         *)
(* contexts are tagged by the cell / attention object and the step that    *)
(* produced them.                                                          *)
(***************************************************************************)
EXTENDS Integers, Sequences, FiniteSets, TLC

(***************************************************************************)
(* Bounds of the model.                                                    *)
(***************************************************************************)
BatchSize == 2
MaxOutputLen == 3
MaxEncoders == 2
WrappedEncoders == 2
MaxPositions == 3

(***************************************************************************)
(* Reserved vocabulary indices (neuralmonkey.vocabulary).                  *)
(***************************************************************************)
PAD_TOKEN_INDEX == 0
START_TOKEN_INDEX == 1
END_TOKEN_INDEX == 2
UNK_TOKEN_INDEX == 3

vocabulary == PAD_TOKEN_INDEX .. UNK_TOKEN_INDEX

\* Indices of ordinary (non reserved) words a reference sentence is made of.
Words == {UNK_TOKEN_INDEX}

RNN_CELL_TYPES == {"GRU", "LSTM"}

\* Python's None, where a tensor is expected: no tensor at all.
None == << >>

VARIABLES
    \* configuration of the decoder and of the unroll
    train_mode,             \* the train_mode argument of _decoding_loop
    batch_size,             \* len(dataset), the extent of go_symbols
    max_output_len,
    rnn_cell,               \* _rnn_cell_str
    conditional_gru,        \* _conditional_gru
    att_objects,            \* the attention objects of this unroll, in order
    att_types,              \* encoder -> the type of its attention objects
    train_padding,          \* the fed reference mask (time major) or None
    \* LoopState
    step,
    input_symbol,
    train_inputs,
    prev_rnn_state,
    prev_rnn_output,
    rnn_outputs,
    prev_logits,
    logits,
    prev_contexts,
    mask,
    finished,
    attention_loop_states,
    \* control and results
    pc,                     \* "decoding", "finalize", "done", "error"
    result,                 \* what _decoding_loop returns
    histories,              \* attention object -> key -> stacked weights
    finalize_log,           \* the histories registered by finalize_loop, in order
    built,                  \* the modes whose unroll has been built
    call                    \* a call of a function outside the loop

config == <<train_mode, batch_size, max_output_len, rnn_cell, conditional_gru,
            att_objects, att_types, train_padding>>

loop_state == <<step, input_symbol, train_inputs, prev_rnn_state,
                prev_rnn_output, rnn_outputs, prev_logits, logits,
                prev_contexts, mask, finished, attention_loop_states>>

vars == <<config, loop_state, pc, result, histories, finalize_log, built, call>>

Batch == 1 .. batch_size

Min(a, b) == IF a <= b THEN a ELSE b

Max(S) == CHOOSE x \in S : \A y \in S : y <= x

(***************************************************************************)
(* tf.TensorArray(dynamic_size=True, size=0): a write-indexed array,       *)
(* modelled as a function from the written indices to the written values.  *)
(***************************************************************************)
EmptyTensorArray == [i \in {} |-> None]

TAWrite(ta, i, v) == [j \in (DOMAIN ta) \cup {i} |-> IF j = i THEN v ELSE ta[j]]

TASize(ta) == IF DOMAIN ta = {} THEN 0 ELSE Max(DOMAIN ta) + 1

\* stack(): the dense tensor of the entries 0 .. size-1 (time major).
TAStack(ta) == [i \in 0 .. (TASize(ta) - 1) |-> ta[i]]

(***************************************************************************)
(* Logit vectors: one real per vocabulary index.  Peak(i, j) is largest at *)
(* index i and second largest at index j.                                  *)
(***************************************************************************)
Peak(i, j) == [k \in vocabulary |-> IF k = i THEN 2 ELSE IF k = j THEN 1 ELSE 0]

LogitVectors == {Peak(END_TOKEN_INDEX, PAD_TOKEN_INDEX),
                 Peak(PAD_TOKEN_INDEX, UNK_TOKEN_INDEX)}

\* tf.argmax along the last axis.  TensorFlow does not say which index it
\* returns among equal largest values; no vector of LogitVectors, nor its
\* slice from index 1, has two largest values, and the first one is taken.
Argmax(v) ==
    CHOOSE i \in DOMAIN v :
        /\ \A k \in DOMAIN v : v[k] <= v[i]
        /\ \A k \in DOMAIN v : v[k] = v[i] => i <= k

\* v[1:], re-indexed from 0.
SliceFrom1(v) == [k \in 0 .. (Max(DOMAIN v) - 1) |-> v[k + 1]]

(***************************************************************************)
(* Vocabulary.sentences_to_tensor(sentences, max_len, add_end_symbol=True, *)
(* pad_to_max_len=False), as Decoder.feed_dict calls it: a time-major      *)
(* tensor of word indices and the parallel 0/1 weights.  A sentence is     *)
(* followed by the end token and then by padding; the time extent is the   *)
(* longest sentence plus its end token, cut to max_len rows.               *)
(***************************************************************************)
TimeExtent(sentences, max_len) ==
    Min(max_len, Max({Len(sentences[b]) : b \in DOMAIN sentences}) + 1)

SentencesToTensor(sentences, max_len) ==
    [inputs |->
        [t \in 0 .. (TimeExtent(sentences, max_len) - 1) |->
            [b \in DOMAIN sentences |->
                IF t < Len(sentences[b]) THEN sentences[b][t + 1]
                ELSE IF t = Len(sentences[b]) THEN END_TOKEN_INDEX
                ELSE PAD_TOKEN_INDEX]],
     weights |->
        [t \in 0 .. (TimeExtent(sentences, max_len) - 1) |->
            [b \in DOMAIN sentences |->
                IF t <= Len(sentences[b]) THEN 1 ELSE 0]]]

\* The reference sentences a dataset can hold: up to MaxOutputLen words, so
\* that both shorter references and references cut to max_output_len occur.
Sentences == UNION {[1 .. n -> Words] : n \in 0 .. MaxOutputLen}

\* The batches of n sentences.  Every operation of the decoder is elementwise
\* over the batch or a reduction over all of it, so batch positions are
\* interchangeable and the batches are listed longest sentence first.
SentenceBatches(n) ==
    {s \in [1 .. n -> Sentences] :
        \A i, j \in 1 .. n : i < j => Len(s[i]) >= Len(s[j])}

\* go_symbols filled with the padding index.
go_symbols_pad == [b \in Batch |-> PAD_TOKEN_INDEX]

\* fd[self.go_symbols] = np.full([len(dataset)], go_symbol_idx)
go_symbols == [b \in Batch |-> START_TOKEN_INDEX]

\* The tensor self.initial_state (the configured encoder projection).
initial_state == [cell |-> "initial_state", step |-> -1]

\* Decoder._decoding_loop: the attention objects of the unroll's mode, one
\* per attentive encoder.
AttentionObjects(mode, n) == [e \in 1 .. n |-> <<IF mode THEN "train" ELSE "run", e>>]

\* empty_attention_loop_state()
empty_attention_loop_state ==
    [contexts |-> EmptyTensorArray, weights |-> EmptyTensorArray]

\* The types of multi-source attention an EncoderWrapper can be given.
FLAT == "FlatMultiAttention"

HIERARCHICAL == "HierarchicalMultiAttention"

\* HierarchicalMultiAttention.__init__: one attention object per wrapped
\* encoder, named after the object that owns them.
ChildAttentionObjects(a) == [c \in 1 .. WrappedEncoders |-> <<a[1], a[2], c>>]

\* HierarchicalMultiAttention.initial_loop_state
hierarchical_initial_loop_state(a) ==
    [child_loop_states |->
        [c \in DOMAIN ChildAttentionObjects(a) |-> empty_attention_loop_state],
     loop_state |-> empty_attention_loop_state]

\* a.initial_loop_state() of the attention object a.
initial_loop_state(a) ==
    IF att_types[a[2]].type = HIERARCHICAL
    THEN hierarchical_initial_loop_state(a)
    ELSE empty_attention_loop_state

\* tf.zeros([batch_size, a.attn_size])
ZeroContext(a) == [att |-> a, step |-> -1]

(***************************************************************************)
(* Decoder.get_initial_loop_state, given what feed_dict fed.               *)
(***************************************************************************)
InitialLoopState(fed) ==
    /\ step = 0
    /\ input_symbol = go_symbols
    /\ train_inputs = fed.inputs
    /\ prev_rnn_state = initial_state
    /\ prev_rnn_output = initial_state
    /\ rnn_outputs = TAWrite(EmptyTensorArray, 0, initial_state)
    /\ prev_logits = [b \in Batch |-> [k \in vocabulary |-> 0]]
    /\ logits = EmptyTensorArray
    /\ prev_contexts = [i \in DOMAIN att_objects |-> ZeroContext(att_objects[i])]
    /\ mask = EmptyTensorArray
    /\ finished = [b \in Batch |-> FALSE]
    /\ attention_loop_states =
           [i \in DOMAIN att_objects |-> initial_loop_state(att_objects[i])]

\* What feed_dict puts in the feed dictionary for the reference placeholders:
\* the tensors of the dataset's sentences, or nothing when it has none.
FeedDict(sentences) ==
    IF sentences = None
    THEN [inputs |-> None, weights |-> None]
    ELSE SentencesToTensor(sentences, max_output_len)

\* The attention objects of both modes, for n attentive encoders.
AllAttentionObjects(n) == {<<m, e>> : m \in {"train", "run"}, e \in 1 .. n}

\* No call of a function outside the loop.
NoCall == [op |-> "none"]

InitUnroll(modes, batches, lens, cells, conds, encs, refs, types) ==
    /\ train_mode \in modes
    /\ batch_size \in batches
    /\ max_output_len \in lens
    /\ rnn_cell \in cells
    /\ conditional_gru \in conds
    /\ \E n \in encs :
          /\ att_objects = AttentionObjects(train_mode, n)
          /\ att_types \in [1 .. n -> types]
          /\ histories = [a \in AllAttentionObjects(n) |-> [k \in {} |-> None]]
    /\ \E sentences \in
              (IF TRUE \in refs THEN SentenceBatches(batch_size) ELSE {}) \cup
              (IF FALSE \in refs /\ ~ train_mode THEN {None} ELSE {}) :
          /\ train_padding = FeedDict(sentences).weights
          /\ InitialLoopState(FeedDict(sentences))
    /\ pc = "decoding"
    /\ result = [logits |-> None, rnn_outputs |-> None, mask |-> None]
    /\ finalize_log = << >>
    /\ built = {}
    /\ call = NoCall

\* Unrolls attending to encoders that are not wrapped hierarchically.
InitWith(modes, batches, lens, cells, conds, encs, refs) ==
    InitUnroll(modes, batches, lens, cells, conds, encs, refs,
               {[type |-> FLAT, use_sentinels |-> FALSE]})

\* The attention types of the attentive encoders, with and without sentinel.
AttentionTypes == [type : {FLAT, HIERARCHICAL}, use_sentinels : BOOLEAN]

\* Unrolls of one sentence with references, in either mode, attending to
\* encoders of every attention type.
InitAttentive ==
    InitUnroll(BOOLEAN, {1}, 1 .. MaxOutputLen, {"GRU"}, {FALSE},
               1 .. MaxEncoders, {TRUE}, AttentionTypes)

\* Unrolls of a GRU decoder attending to one encoder.
Init ==
    InitWith(BOOLEAN, 1 .. BatchSize, 1 .. MaxOutputLen, {"GRU"}, {FALSE}, {1},
             BOOLEAN)

\* Free-running unrolls without references, up to a batch of 3 decoded for
\* at most 5 steps.
InitFreeRunning ==
    InitWith({FALSE}, (1 .. BatchSize) \cup {3}, (1 .. MaxOutputLen) \cup {5},
             {"GRU"}, {FALSE}, {1}, {FALSE})

\* Every configuration of the decoder, unrolled for at most one step.
InitConfigs ==
    InitWith(BOOLEAN, 1 .. BatchSize, {1}, RNN_CELL_TYPES, BOOLEAN,
             0 .. MaxEncoders, BOOLEAN)

\* loop_exit_criterion going on only until the first sequence has finished.
loop_exit_criterion_any ==
    LET not_any_done == ~ (\E b \in Batch : finished[b])
        before_max_len == step < max_output_len
    IN  not_any_done /\ before_max_len

\* loop_exit_criterion with the length test off by one.
loop_exit_criterion_le ==
    LET not_all_done == ~ (\A b \in Batch : finished[b])
        before_max_len == step <= max_output_len
    IN  not_all_done /\ before_max_len

(***************************************************************************)
(* Decoder.loop_exit_criterion: the loop goes on while it is true.         *)
(***************************************************************************)
loop_exit_criterion ==
    LET not_all_done == ~ (\A b \in Batch : finished[b])
        before_max_len == step < max_output_len
    IN  not_all_done /\ before_max_len

(***************************************************************************)
(* The parts of Decoder.get_body.body.                                     *)
(***************************************************************************)
\* The recurrent cell(s) of one step: the output and state that reach the
\* next Loop State.
FirstCell ==
    IF rnn_cell = "GRU"
    THEN [cell_output |-> [cell |-> "GRU", step |-> step],
          state |-> [cell |-> "GRU", step |-> step]]
    ELSE [cell_output |-> [cell |-> "LSTM.h", step |-> step],
          state |-> [cell |-> "LSTM.c", step |-> step]]

\* next_state is bound to the first cell's state (state, or state.c).
NextState == FirstCell.state

\* cell_output is rebound by the conditional GRU's second cell.
CellOutput ==
    IF rnn_cell = "GRU" /\ conditional_gru
    THEN [cell |-> "cond_gru_2_cell", step |-> step]
    ELSE FirstCell.cell_output

\* Attention writing every step's weights over the first entry.
AttentionOverwriting(a, att_loop_state) ==
    [context |-> [att |-> a, step |-> step],
     loop_state |->
        [contexts |-> TAWrite(att_loop_state.contexts, step,
                              [att |-> a, step |-> step]),
         weights |-> TAWrite(att_loop_state.weights, 0,
                             [att |-> a, step |-> step])]]

\* a.attention(cell_output, prev_rnn_output, rnn_input, att_loop_state, step)
Attention(a, att_loop_state) ==
    [context |-> [att |-> a, step |-> step],
     loop_state |->
        [contexts |-> TAWrite(att_loop_state.contexts, step,
                              [att |-> a, step |-> step]),
         weights |-> TAWrite(att_loop_state.weights, step,
                             [att |-> a, step |-> step])]]

\* The candidates of the top-level softmax of a hierarchical attention: the
\* contexts of the children, and last the sentinel if there is one.
Candidates(a, child_contexts, use_sentinels) ==
    child_contexts
    \o (IF use_sentinels
        THEN <<[sentinel |-> a, state |-> CellOutput,
                prev_state |-> prev_rnn_output, input |-> input_symbol]>>
        ELSE << >>)

\* HierarchicalAttention whose children attend with the state the sentinel
\* has gated.
HierarchicalAttentionGated(a, att_loop_state, use_sentinels) ==
    LET children == ChildAttentionObjects(a)
        child(c) == Attention(<<a[1], a[2], c, use_sentinels>>,
                              att_loop_state.child_loop_states[c])
        child_contexts == [c \in DOMAIN children |-> child(c).context]
        top == [att |-> a, step |-> step,
                candidates |-> Candidates(a, child_contexts, use_sentinels)]
    IN  [context |-> top,
         child_contexts |-> child_contexts,
         loop_state |->
            [child_loop_states |->
                [c \in DOMAIN children |-> child(c).loop_state],
             loop_state |->
                [contexts |->
                    TAWrite(att_loop_state.loop_state.contexts, step, top),
                 weights |->
                    TAWrite(att_loop_state.loop_state.weights, step, top)]]]

\* HierarchicalMultiAttention.attention: every child attends with its own
\* loop state, then the top-level softmax over the projected child contexts
\* (and the sentinel) gives the context and the weights of the step.
HierarchicalAttention(a, att_loop_state, use_sentinels) ==
    LET children == ChildAttentionObjects(a)
        child(c) == Attention(children[c], att_loop_state.child_loop_states[c])
        child_contexts == [c \in DOMAIN children |-> child(c).context]
        top == [att |-> a, step |-> step,
                candidates |-> Candidates(a, child_contexts, use_sentinels)]
    IN  [context |-> top,
         child_contexts |-> child_contexts,
         loop_state |->
            [child_loop_states |->
                [c \in DOMAIN children |-> child(c).loop_state],
             loop_state |->
                [contexts |->
                    TAWrite(att_loop_state.loop_state.contexts, step, top),
                 weights |->
                    TAWrite(att_loop_state.loop_state.weights, step, top)]]]

\* a.attention(...) of the attention object a, whatever its type.
AttentionStep(a, att_loop_state) ==
    IF att_types[a[2]].type = HIERARCHICAL
    THEN HierarchicalAttention(a, att_loop_state, att_types[a[2]].use_sentinels)
    ELSE Attention(a, att_loop_state)

\* zip(att_objects, loop_state.attention_loop_states)
Attns ==
    [i \in 1 .. Min(Len(att_objects), Len(attention_loop_states)) |->
        AttentionStep(att_objects[i], attention_loop_states[i])]

\* NextSymbols ignoring teacher forcing.
NextSymbolsArgmax(step_logits) == [b \in Batch |-> Argmax(step_logits[b])]

\* NextSymbols reading the reference one row behind.
NextSymbolsBehind(step_logits) ==
    IF train_mode
    THEN train_inputs[IF step = 0 THEN 0 ELSE step - 1]
    ELSE [b \in Batch |-> Argmax(step_logits[b])]

\* next_symbols: the reference row in teacher forcing, else the argmax.
NextSymbols(step_logits) ==
    IF train_mode
    THEN train_inputs[step]
    ELSE [b \in Batch |-> Argmax(step_logits[b])]

\* HasFinished forgetting the flag of the previous Loop State.
HasJustFinished(next_symbols) ==
    [b \in Batch |-> next_symbols[b] = END_TOKEN_INDEX]

HasFinished(next_symbols) ==
    [b \in Batch |-> finished[b] \/ next_symbols[b] = END_TOKEN_INDEX]

\* StepMask taken from the flag of the previous Loop State.
StepMaskStale(has_finished) == [b \in Batch |-> ~ finished[b]]

\* tf.logical_not(has_finished), the mask entry of the step.
StepMask(has_finished) == [b \in Batch |-> ~ has_finished[b]]

\* The step cannot be evaluated: the reference has no row `step`, or the
\* conditional GRU has no context to concatenate.
StepFails ==
    \/ train_mode /\ (train_inputs = None \/ step \notin DOMAIN train_inputs)
    \/ rnn_cell = "GRU" /\ conditional_gru /\ Len(att_objects) = 0

\* NextTrainInputs dropping the row the step has read.
NextTrainInputsRest ==
    [t \in (DOMAIN train_inputs) \ {step} |-> train_inputs[t]]

\* train_inputs=loop_state.train_inputs
NextTrainInputs == train_inputs

Body(step_logits) ==
    LET next_symbols == NextSymbols(step_logits)
        has_finished == HasFinished(next_symbols)
    IN  /\ step' = step + 1
        /\ input_symbol' = next_symbols
        /\ train_inputs' = NextTrainInputs
        /\ prev_rnn_state' = NextState
        /\ prev_rnn_output' = CellOutput
        /\ rnn_outputs' = TAWrite(rnn_outputs, step + 1, CellOutput)
        /\ prev_contexts' = [i \in DOMAIN Attns |-> Attns[i].context]
        /\ prev_logits' = step_logits
        /\ logits' = TAWrite(logits, step, step_logits)
        /\ finished' = has_finished
        /\ mask' = TAWrite(mask, step, StepMask(has_finished))
        /\ attention_loop_states' = [i \in DOMAIN Attns |-> Attns[i].loop_state]

\* One iteration of tf.while_loop: the test holds and the body runs.
Step ==
    /\ pc = "decoding"
    /\ loop_exit_criterion
    /\ IF StepFails
       THEN /\ pc' = "error"
            /\ UNCHANGED loop_state
       ELSE /\ \E step_logits \in [Batch -> LogitVectors] : Body(step_logits)
            /\ pc' = pc
    /\ UNCHANGED <<config, result, histories, finalize_log, built, call>>

\* The test fails: tf.while_loop returns the final Loop State.
Halt ==
    /\ pc = "decoding"
    /\ ~ loop_exit_criterion
    /\ pc' = "finalize"
    /\ UNCHANGED <<config, loop_state, result, histories, finalize_log, built,
                   call>>

\* att_history_key without the mode of the unroll.
att_history_key_name == "decoder"

\* "<name>_train" or "<name>_run"
att_history_key == IF train_mode THEN "decoder_train" ELSE "decoder_run"

\* attn_obj.finalize_loop(key, att_state): histories[key] = weights.stack()
FinalizeLoop(history, key, att_state) ==
    [k \in (DOMAIN history) \cup {key} |->
        IF k = key THEN TAStack(att_state.weights) ELSE history[k]]

\* The loop state holding the weights of the attention object's own
\* history.
OwnLoopState(a, att_state) ==
    IF att_types[a[2]].type = HIERARCHICAL THEN att_state.loop_state
    ELSE att_state

\* FinalizeCalls leaving the children of a hierarchical attention out.
FinalizeCallsOwn(a, key, att_state) ==
    <<[obj |-> a, key |-> key, last_loop_state |-> att_state]>>

\* The calls of finalize_loop that attn_obj.finalize_loop(key, att_state)
\* completes, in order: a hierarchical attention calls its children first.
FinalizeCalls(a, key, att_state) ==
    (IF att_types[a[2]].type = HIERARCHICAL
     THEN [c \in DOMAIN ChildAttentionObjects(a) |->
              [obj |-> ChildAttentionObjects(a)[c], key |-> key,
               last_loop_state |-> att_state.child_loop_states[c]]]
     ELSE << >>)
    \o <<[obj |-> a, key |-> key, last_loop_state |-> att_state]>>

\* for att_state, attn_obj in zip(attention_loop_states, att_objects)
Finalized == 1 .. Min(Len(attention_loop_states), Len(att_objects))

RECURSIVE FinalizeLoops(_)
FinalizeLoops(i) ==
    IF i = 0 THEN << >>
    ELSE FinalizeLoops(i - 1) \o
         FinalizeCalls(att_objects[i], att_history_key, attention_loop_states[i])

\* The rest of _decoding_loop: finalize the attention objects, stack.
Finalize ==
    /\ pc = "finalize"
    /\ histories' =
          [a \in DOMAIN histories |->
              IF \E i \in Finalized : att_objects[i] = a
              THEN LET i == CHOOSE i \in Finalized : att_objects[i] = a
                   IN  FinalizeLoop(histories[a], att_history_key,
                                    OwnLoopState(a, attention_loop_states[i]))
              ELSE histories[a]]
    /\ finalize_log' = finalize_log \o FinalizeLoops(Max(Finalized \cup {0}))
    /\ built' = built \cup {train_mode}
    /\ result' = [logits |-> TAStack(logits),
                  rnn_outputs |-> TAStack(rnn_outputs),
                  mask |-> TAStack(mask)]
    /\ pc' = "done"
    /\ UNCHANGED <<config, loop_state, call>>

(***************************************************************************)
(* The decoder builds its other unroll (train_logits and                   *)
(* runtime_loop_result each call _decoding_loop once): the same            *)
(* placeholders and configuration, the attention objects of the other      *)
(* mode, a new initial Loop State.  The histories registered so far stay.  *)
(***************************************************************************)
BuildOther ==
    /\ pc = "done"
    /\ (~ train_mode) \notin built
    /\ train_mode' = ~ train_mode
    /\ att_objects' = AttentionObjects(~ train_mode, Len(att_objects))
    /\ step' = 0
    /\ input_symbol' = go_symbols
    /\ train_inputs' = train_inputs
    /\ prev_rnn_state' = initial_state
    /\ prev_rnn_output' = initial_state
    /\ rnn_outputs' = TAWrite(EmptyTensorArray, 0, initial_state)
    /\ prev_logits' = [b \in Batch |-> [k \in vocabulary |-> 0]]
    /\ logits' = EmptyTensorArray
    /\ prev_contexts' = [i \in DOMAIN att_objects' |-> ZeroContext(att_objects'[i])]
    /\ mask' = EmptyTensorArray
    /\ finished' = [b \in Batch |-> FALSE]
    /\ attention_loop_states' =
           [i \in DOMAIN att_objects' |-> initial_loop_state(att_objects'[i])]
    /\ pc' = "decoding"
    /\ result' = [logits |-> None, rnn_outputs |-> None, mask |-> None]
    /\ UNCHANGED <<batch_size, max_output_len, rnn_cell, conditional_gru,
                   att_types, train_padding, histories, finalize_log, built,
                   call>>

\* decoded taking the argmax over the whole vocabulary.
decoded_full ==
    [t \in DOMAIN result.logits |->
        [b \in Batch |-> Argmax(result.logits[t][b])]]

\* Decoder.decoded: tf.argmax(runtime_logits[:, :, 1:], -1) + 1
decoded ==
    [t \in DOMAIN result.logits |->
        [b \in Batch |-> Argmax(SliceFrom1(result.logits[t][b])) + 1]]

\* tf.transpose of a time-major tensor: batch-major.
Transpose(tensor) ==
    [b \in Batch |-> [t \in DOMAIN tensor |-> tensor[t][b]]]

\* tf.shape(tensor)[1] of a batch-major tensor made of a time-major one.
TimeSteps(tensor) == Cardinality(DOMAIN tensor)

\* batch_major[:, :n]
SliceTime(batch_major, n) ==
    [b \in DOMAIN batch_major |->
        [t \in {u \in DOMAIN batch_major[b] : u < n} |-> batch_major[b][t]]]

\* runtime_loss cut to the length of the reference only.
runtime_loss_ref ==
    LET min_time == TimeSteps(train_inputs)
    IN  [op |-> "sequence_loss",
         logits |-> SliceTime(Transpose(result.logits), min_time),
         targets |-> SliceTime(Transpose(train_inputs), min_time),
         weights |-> SliceTime(Transpose(train_padding), min_time)]

\* Decoder.runtime_loss: the arguments sequence_loss is called with.
runtime_loss ==
    LET train_targets == Transpose(train_inputs)
        batch_major_logits == Transpose(result.logits)
        min_time == Min(TimeSteps(train_inputs), TimeSteps(result.logits))
    IN  [op |-> "sequence_loss",
         logits |-> SliceTime(batch_major_logits, min_time),
         targets |-> SliceTime(train_targets, min_time),
         weights |-> SliceTime(Transpose(train_padding), min_time)]

\* Decoder.train_xents: the arguments sequence_loss is called with.
train_xents ==
    [op |-> "sequence_loss",
     logits |-> Transpose(result.logits),
     targets |-> Transpose(train_inputs),
     weights |-> Transpose(train_padding)]

Next == Step \/ Halt \/ Finalize

(***************************************************************************)
(* Calls outside the decoding loop.  No unroll is running: a decoder of    *)
(* batch size n and max_output_len len stands at step s.                   *)
(***************************************************************************)
Idle(n, len, s) ==
    /\ train_mode = FALSE
    /\ batch_size = n
    /\ max_output_len = len
    /\ rnn_cell = "GRU"
    /\ conditional_gru = FALSE
    /\ att_objects = << >>
    /\ att_types = << >>
    /\ train_padding = None
    /\ step = s
    /\ input_symbol = go_symbols
    /\ train_inputs = None
    /\ prev_rnn_state = initial_state
    /\ prev_rnn_output = initial_state
    /\ rnn_outputs = EmptyTensorArray
    /\ prev_logits = None
    /\ logits = EmptyTensorArray
    /\ prev_contexts = << >>
    /\ mask = EmptyTensorArray
    /\ finished = [b \in Batch |-> FALSE]
    /\ attention_loop_states = << >>
    /\ pc = "idle"
    /\ result = [logits |-> None, rnn_outputs |-> None, mask |-> None]
    /\ histories = << >>
    /\ finalize_log = << >>
    /\ built = {}

\* A call of op with the arguments args, not yet returned.
Called(op, args) == [op |-> op, args |-> args, returned |-> FALSE, out |-> None]

\* The call of op returns out; nothing of the loop changes.
Return(op, out) ==
    /\ call.op = op
    /\ ~ call.returned
    /\ call' = [call EXCEPT !.returned = TRUE, !.out = out]
    /\ UNCHANGED <<config, loop_state, pc, result, histories, finalize_log,
                   built>>

(***************************************************************************)
(* Decoder.__init__ up to the attention objects, and the initial state it  *)
(* builds for the cost it logs.                                            *)
(***************************************************************************)
\* The sizes a hidden state, an embedding or an encoded state can have.
Sizes == {1, 2}

\* An Optional argument that is given; one that is not is None.
Some(v) == <<v>>

\* The initial-state strategies __init__ chooses from; "custom" is a
\* callable the caller supplied.
empty_initial_state == "empty_initial_state"

concat_encoder_projection == "concat_encoder_projection"

linear_encoder_projection == "linear_encoder_projection"

\* The arguments of __init__ that its validation and the choice of the
\* initial state read.  An encoder is given by the size of its encoded
\* state; init_state_shape is the static shape of what the
\* encoder_projection returns when it is called.
InitArgs ==
    [embedding_size : {None} \cup {Some(z) : z \in Sizes},
     embeddings_source :
         {None} \cup {Some(m) : m \in [embedding_matrix : Sizes]},
     encoder_projection : {None, Some("custom")},
     encoders : UNION {[1 .. n -> Sizes] : n \in 0 .. MaxEncoders},
     rnn_size : {None} \cup {Some(z) : z \in Sizes},
     rnn_cell : RNN_CELL_TYPES \cup {"RNN"},
     use_attention : BOOLEAN,
     init_state_shape : [rank : {1, 2}, size : Sizes]]

RECURSIVE SumSizes(_)
SumSizes(sizes) ==
    IF sizes = << >> THEN 0
    ELSE sizes[1] + SumSizes(Tail(sizes))

\* An exception of the given type raised by the given check.
Raised(type, check) == [type |-> type, check |-> check]

NoError == Raised("none", "none")

\* EncoderProjection preferring the concatenation whenever there are encoders.
EncoderProjectionConcat(a) ==
    IF a.encoder_projection # None THEN a.encoder_projection[1]
    ELSE IF a.encoders = << >> THEN empty_initial_state
    ELSE concat_encoder_projection

\* self.encoder_projection after the selection.
EncoderProjection(a) ==
    IF a.encoder_projection # None THEN a.encoder_projection[1]
    ELSE IF a.encoders = << >> THEN empty_initial_state
    ELSE IF a.rnn_size = None THEN concat_encoder_projection
    ELSE linear_encoder_projection

\* RnnSize taking the sum of the encoded sizes whenever none is given.
RnnSizeSum(a) ==
    IF a.rnn_size = None THEN Some(SumSizes(a.encoders)) ELSE a.rnn_size

\* self.rnn_size after the selection: given, or None.
RnnSize(a) ==
    IF a.encoder_projection = None /\ a.encoders # << >> /\ a.rnn_size = None
    THEN Some(SumSizes(a.encoders))
    ELSE a.rnn_size

\* self.embedding_size after the embeddings source has overridden it.
EmbeddingSize(a) ==
    IF a.embeddings_source # None
    THEN Some(a.embeddings_source[1].embedding_matrix)
    ELSE a.embedding_size

\* InitError checking the cell name before the hidden size.
InitErrorCellFirst(a) ==
    IF a.embedding_size = None /\ a.embeddings_source = None
    THEN Raised("ValueError", "embedding_size")
    ELSE IF a.rnn_cell \notin RNN_CELL_TYPES
    THEN Raised("ValueError", "rnn_cell")
    ELSE IF RnnSize(a) = None
    THEN Raised("AssertionError", "rnn_size")
    ELSE IF /\ a.init_state_shape.rank = 1
            /\ Some(a.init_state_shape.size) # RnnSize(a)
    THEN Raised("AssertionError", "init_state_shape")
    ELSE NoError

\* The first exception __init__ raises, if any.
InitError(a) ==
    IF a.embedding_size = None /\ a.embeddings_source = None
    THEN Raised("ValueError", "embedding_size")
    ELSE IF RnnSize(a) = None
    THEN Raised("AssertionError", "rnn_size")
    ELSE IF a.rnn_cell \notin RNN_CELL_TYPES
    THEN Raised("ValueError", "rnn_cell")
    ELSE IF /\ a.init_state_shape.rank = 1
            /\ Some(a.init_state_shape.size) # RnnSize(a)
    THEN Raised("AssertionError", "init_state_shape")
    ELSE NoError

\* What __init__ leaves behind: whether it had begun to build the graph
\* and, when it returns, the decoder's fields.
Decoder_init(a) ==
    LET error == InitError(a)
        constructed == error = NoError
    IN  [error |-> error,
         graph |-> error.check \in {"init_state_shape", "none"},
         constructed |-> constructed,
         embedding_size |-> IF constructed THEN EmbeddingSize(a) ELSE None,
         encoder_projection |->
             IF constructed THEN Some(EncoderProjection(a)) ELSE None,
         rnn_size |-> IF constructed THEN RnnSize(a) ELSE None,
         train_attention_objects |->
             IF constructed /\ a.use_attention
             THEN {<<"train", e>> : e \in DOMAIN a.encoders} ELSE {},
         runtime_attention_objects |->
             IF constructed /\ a.use_attention
             THEN {<<"run", e>> : e \in DOMAIN a.encoders} ELSE {}]

InitConstruct ==
    /\ Idle(1, 1, 0)
    /\ \E a \in InitArgs : call = Called("Decoder.__init__", a)

Construct == Return("Decoder.__init__", Decoder_init(call.args))

\* Constructions of a decoder, over all arguments.
SpecConstruct == InitConstruct /\ [][Construct]_vars

(***************************************************************************)
(* Decoder.feed_dict(dataset, train): sentences is the dataset's series    *)
(* of reference sentences, or None.                                        *)
(***************************************************************************)
\* feed_dict without the test of the references.
feed_dict_unchecked(sentences, train) ==
    [error |-> NoError,
     fd |-> IF sentences = None
            THEN [train_mode |-> train, go_symbols |-> go_symbols]
            ELSE [train_mode |-> train, go_symbols |-> go_symbols,
                  train_inputs |-> FeedDict(sentences).inputs,
                  train_padding |-> FeedDict(sentences).weights]]

feed_dict(sentences, train) ==
    IF sentences = None /\ train
    THEN [error |-> Raised("ValueError", "sentences"), fd |-> None]
    ELSE [error |-> NoError,
          fd |-> IF sentences = None
                 THEN [train_mode |-> train, go_symbols |-> go_symbols]
                 ELSE [train_mode |-> train, go_symbols |-> go_symbols,
                       train_inputs |-> FeedDict(sentences).inputs,
                       train_padding |-> FeedDict(sentences).weights]]

InitFeed ==
    \E n \in 1 .. BatchSize, len \in 1 .. MaxOutputLen :
        /\ Idle(n, len, 0)
        /\ \E sentences \in SentenceBatches(n) \cup {None}, train \in BOOLEAN :
              call = Called("Decoder.feed_dict",
                            [sentences |-> sentences, train |-> train])

Feed ==
    Return("Decoder.feed_dict",
           feed_dict(call.args.sentences, call.args.train))

\* Calls of feed_dict, over the datasets and both values of train.
SpecFeed == InitFeed /\ [][Feed]_vars

(***************************************************************************)
(* FlatMultiAttention.  Reals are exact fractions: a softmax is the vector *)
(* of the exponentials of the logits over their sum, and the exponentials  *)
(* are positive integers.  Every row of the batch is computed alike, so    *)
(* the mask and the logits of one row are given, and the batch sizes of    *)
(* the decoder state and of the encoders.                                  *)
(***************************************************************************)
\* The 1e-8 of _renorm_softmax is 1 / EpsilonInverse.
EpsilonInverse == 100000000

epsilon == [num |-> 1, den |-> EpsilonInverse]

\* A position of an encoder: its mask entry and the exponential of its logit.
Slots == [mask : {0, 1}, exp : {1, 2}]

\* The lists of n encoders of at least one position each, p positions at
\* most in all.
RECURSIVE EncoderLists(_, _)
EncoderLists(n, p) ==
    IF n = 0 THEN {<< >>}
    ELSE UNION {{<<e>> \o rest : rest \in EncoderLists(n - 1, p - Len(e))} :
                   e \in UNION {[1 .. q -> Slots] : q \in 1 .. (p - (n - 1))}}

RECURSIVE Concat(_)
\* tf.concat(tensors, 1) of one row.
Concat(rows) ==
    IF rows = << >> THEN << >> ELSE rows[1] \o Concat(Tail(rows))

RECURSIVE SumSeq(_)
\* tf.reduce_sum of one row.
SumSeq(row) == IF row = << >> THEN 0 ELSE row[1] + SumSeq(Tail(row))

\* masks_concat with the sentinel's one put first.
masks_concat_sentinel_first(encoders, use_sentinels) ==
    (IF use_sentinels THEN <<1>> ELSE << >>)
    \o Concat([k \in DOMAIN encoders |->
                  [i \in DOMAIN encoders[k] |-> encoders[k][i].mask]])

\* self.masks_concat: the masks of the encoders, then a one for the sentinel.
masks_concat(encoders, use_sentinels) ==
    Concat([k \in DOMAIN encoders |->
               [i \in DOMAIN encoders[k] |-> encoders[k][i].mask]])
    \o (IF use_sentinels THEN <<1>> ELSE << >>)

\* tf.concat(logits, 1), as exponentials: the encoders' logits, then the
\* sentinel's.
ExpLogits(encoders, use_sentinels, sentinel_exp) ==
    Concat([k \in DOMAIN encoders |->
               [i \in DOMAIN encoders[k] |-> encoders[k][i].exp]])
    \o (IF use_sentinels THEN <<sentinel_exp>> ELSE << >>)

\* tf.nn.softmax: the numerators over their common denominator.
Softmax(exps) == [nums |-> exps, den |-> SumSeq(exps)]

\* _renorm_softmax without the mask.
renorm_softmax_unmasked(exps, masks) ==
    LET softmax_concat == Softmax(exps)
        sum == [num |-> SumSeq(softmax_concat.nums), den |-> softmax_concat.den]
        norm == [num |-> sum.num * epsilon.den + sum.den * epsilon.num,
                 den |-> sum.den * epsilon.den]
    IN  [norm |-> norm,
         attentions |->
            [nums |-> [i \in DOMAIN exps |->
                          softmax_concat.nums[i]
                              * (norm.den \div softmax_concat.den)],
             den |-> norm.num]]

\* FlatMultiAttention._renorm_softmax: the softmax times the mask, over its
\* sum plus 1e-8.  The quotient is taken exactly: the denominator of norm
\* is a multiple of the denominator of the softmax.
renorm_softmax(exps, masks) ==
    LET softmax == Softmax(exps)
        softmax_concat ==
            [nums |-> [i \in DOMAIN exps |-> softmax.nums[i] * masks[i]],
             den |-> softmax.den]
        sum == [num |-> SumSeq(softmax_concat.nums), den |-> softmax_concat.den]
        norm == [num |-> sum.num * epsilon.den + sum.den * epsilon.num,
                 den |-> sum.den * epsilon.den]
    IN  [norm |-> norm,
         attentions |->
            [nums |-> [i \in DOMAIN exps |->
                          softmax_concat.nums[i]
                              * (norm.den \div softmax_concat.den)],
             den |-> norm.num]]

\* The context projection of encoder k for row b of the encoders' batch.
ProjectionRow(encoders, k, b) ==
    [i \in DOMAIN encoders[k] |-> [encoder |-> k, row |-> b, position |-> i]]

\* self.encoder_projections_for_ctx
encoder_projections_for_ctx(encoders, encoders_batch) ==
    [k \in DOMAIN encoders |->
        [b \in 1 .. encoders_batch |-> ProjectionRow(encoders, k, b)]]

\* tf.tile(proj, [beam_size, 1, 1])
Tile(proj, beam_size) ==
    [i \in 1 .. (beam_size * Len(proj)) |-> proj[((i - 1) % Len(proj)) + 1]]

\* _tile_encoders_for_beamsearch dividing without the assertion.
tile_encoders_unasserted(projections, sentinel_batch_size) ==
    LET encoders_batch_size == Len(projections[1])
        beam_size == sentinel_batch_size \div encoders_batch_size
    IN  [error |-> NoError,
         tiled |-> [k \in DOMAIN projections |->
                       Tile(projections[k], beam_size)]]

\* FlatMultiAttention._tile_encoders_for_beamsearch
tile_encoders_for_beamsearch(projections, sentinel_batch_size) ==
    LET encoders_batch_size == Len(projections[1])
        modulo == sentinel_batch_size % encoders_batch_size
        beam_size == sentinel_batch_size \div encoders_batch_size
    IN  IF modulo # 0
        THEN [error |-> Raised("InvalidArgumentError", "assert_equal"),
              tiled |-> None]
        ELSE [error |-> NoError,
              tiled |-> [k \in DOMAIN projections |->
                            Tile(projections[k], beam_size)]]

\* projected_state + proj can be evaluated: the batch sizes of the decoder
\* state and of the encoders are equal, or one of them is 1.
Broadcasts(decoder_batch, encoders_batch) ==
    decoder_batch = encoders_batch \/ decoder_batch = 1 \/ encoders_batch = 1

\* FlatMultiAttention.attention.  When both the sum and the assertion
\* fail, the assertion is the one reported; they raise the same exception.
FlatAttention(a) ==
    LET renorm == renorm_softmax(
                      ExpLogits(a.encoders, a.use_sentinels, a.sentinel_exp),
                      masks_concat(a.encoders, a.use_sentinels))
        projections ==
            encoder_projections_for_ctx(a.encoders, a.encoders_batch)
        tiling == IF a.use_sentinels
                  THEN tile_encoders_for_beamsearch(projections,
                                                    a.decoder_batch)
                  ELSE [error |-> NoError, tiled |-> projections]
        error == IF tiling.error # NoError THEN tiling.error
                 ELSE IF ~ Broadcasts(a.decoder_batch, a.encoders_batch)
                 THEN Raised("InvalidArgumentError", "broadcast")
                 ELSE NoError
        rows == IF error = NoError THEN DOMAIN tiling.tiled[1] ELSE {}
        projections_concat ==
            [b \in rows |->
                Concat([k \in DOMAIN a.encoders |-> tiling.tiled[k][b]])
                \o (IF a.use_sentinels THEN <<[sentinel |-> b]>> ELSE << >>)]
        contexts ==
            [b \in rows |-> [attentions |-> renorm.attentions,
                             projections |-> projections_concat[b]]]
    IN  [error |-> error,
         norm |-> renorm.norm,
         attentions |-> renorm.attentions,
         tiled |-> tiling.tiled,
         contexts |-> IF error = NoError THEN contexts ELSE None,
         loop_state |->
             IF error = NoError
             THEN [contexts |-> TAWrite(EmptyTensorArray, step, contexts),
                   weights |->
                       TAWrite(EmptyTensorArray, step, renorm.attentions)]
             ELSE None]

\* The arguments of a step of a flat attention.
FlatArgs ==
    [encoders : UNION {EncoderLists(n, MaxPositions) : n \in 1 .. MaxEncoders},
     use_sentinels : BOOLEAN,
     sentinel_exp : {1, 2},
     decoder_batch : 1 .. (2 * BatchSize),
     encoders_batch : 1 .. BatchSize]

InitFlat ==
    /\ Idle(1, 1, 0)
    /\ \E a \in FlatArgs :
          /\ ~ a.use_sentinels => a.sentinel_exp = 1
          /\ call = Called("FlatMultiAttention.attention", a)

FlatStep == Return("FlatMultiAttention.attention", FlatAttention(call.args))

\* Steps of a flat attention, over masks, logits and batch sizes.
SpecFlat == InitFlat /\ [][FlatStep]_vars

Spec == Init /\ [][Next]_vars

SpecConfigs == InitConfigs /\ [][Next]_vars

SpecFreeRunning == InitFreeRunning /\ [][Next]_vars

NextBoth == Step \/ Halt \/ Finalize \/ BuildOther

\* Both unrolls of one decoder, in either order.
SpecAttentive == InitAttentive /\ [][NextBoth]_vars

\* tf.while_loop keeps iterating; the loop and its finalisation are one call.
FairSpec == Spec /\ WF_vars(Next)

(***************************************************************************)
(* Properties of the decoding loop.                                        *)
(***************************************************************************)
Halted == pc \in {"finalize", "done"}

\* The token a free-running step chose for b: an index of the largest logit.
ChoseEnd(t, b) ==
    \A k \in vocabulary : logits[t][b][k] <= logits[t][b][END_TOKEN_INDEX]

\* b has emitted the end token within the first k steps.
EmittedEnd(b, k) == \E t \in 0 .. (k - 1) : t \in DOMAIN logits /\ ChoseEnd(t, b)

AllEmittedEnd(k) == \A b \in Batch : EmittedEnd(b, k)

\* b chose the end token at step t and at no earlier step.
FirstEndAt(b, t) ==
    /\ t \in DOMAIN logits
    /\ ChoseEnd(t, b)
    /\ ~ EmittedEnd(b, t)

\* The unroll of the batch of 3 with max_output_len = 5: A ends at step 2,
\* B at step 4, C never.
HaltScenario ==
    /\ Halted
    /\ ~ train_mode
    /\ batch_size = 3
    /\ max_output_len = 5
    /\ FirstEndAt(1, 2)
    /\ FirstEndAt(2, 4)
    /\ ~ EmittedEnd(3, step)

\* C1: in a free-running unroll a step is executed only while not all
\* sequences have emitted the end token and step < max_output_len, and the
\* loop halts at the first step count where that fails; the batch of 3 with
\* max_output_len = 5 (end at step 2, step 4, never) halts with step = 5 and
\* finished = [True, True, False].
C1_HaltsExactly ==
    ~ train_mode =>
        /\ \A k \in 0 .. (step - 1) : ~ AllEmittedEnd(k) /\ k < max_output_len
        /\ Halted => (AllEmittedEnd(step) \/ step = max_output_len)
        /\ pc = "decoding" /\ ~ AllEmittedEnd(step) /\ step < max_output_len
              => ENABLED Step
        /\ HaltScenario => step = 5 /\ finished = <<TRUE, TRUE, FALSE>>

C1_Witness == HaltScenario /\ pc = "finalize" /\ step = 5

\* C2: every unroll reaches the finalize phase, after at most max_output_len
\* executions of the step function.
C2_Terminates == <>(pc = "finalize" /\ step <= max_output_len)

C2_Witness ==
    /\ pc = "finalize"
    /\ step = max_output_len
    /\ max_output_len = MaxOutputLen
    /\ \E b \in Batch : ~ finished[b]

\* The token chosen for b by the step that led to the next Loop State is the
\* end token: the reference token in teacher forcing, the argmax otherwise.
ChosenIsEnd(b) ==
    IF train_mode
    THEN train_inputs[step][b] = END_TOKEN_INDEX
    ELSE \A k \in vocabulary :
            logits'[step][b][k] <= logits'[step][b][END_TOKEN_INDEX]

\* C3: after each step finished[b] is true iff it was true before or the
\* token chosen at the step is the end token; once true it stays true.
C3_FinishedMonotone ==
    [][/\ step' = step + 1 =>
            \A b \in Batch : finished'[b] <=> (finished[b] \/ ChosenIsEnd(b))
       /\ \A b \in Batch : finished[b] => finished'[b]]_vars

C3_Witness ==
    /\ pc = "decoding"
    /\ step >= 2
    /\ \E b \in Batch : finished[b] /\ ~ mask[0][b] /\ ~ mask[1][b]
    /\ \E b \in Batch : ~ finished[b]

\* C4: the returned mask has, for every sequence, a prefix of 1s followed by
\* 0s only, and at most max_output_len time steps.
C4_MaskPrefix ==
    pc = "done" =>
        /\ \A b \in Batch : \A t1, t2 \in DOMAIN result.mask :
              (t1 < t2 /\ ~ result.mask[t1][b]) => ~ result.mask[t2][b]
        /\ Cardinality(DOMAIN result.mask) <= max_output_len

C4_Witness ==
    /\ pc = "done"
    /\ Cardinality(DOMAIN result.mask) = 3
    /\ \E b \in Batch :
          result.mask[0][b] /\ ~ result.mask[1][b] /\ ~ result.mask[2][b]

\* The token of sequence b at step t of the unroll is the end token.
TokenIsEnd(t, b) ==
    IF train_mode
    THEN train_inputs[t][b] = END_TOKEN_INDEX
    ELSE \A k \in vocabulary :
            result.logits[t][b][k] <= result.logits[t][b][END_TOKEN_INDEX]

\* C5: for a sequence whose (first) end token is at step t the returned mask
\* is 1 at every step up to and including t and 0 at every later step.
C5_MaskIncludesEnd ==
    pc = "done" =>
        \A b \in Batch : \A t \in DOMAIN result.mask :
            (TokenIsEnd(t, b) /\ \A u \in 0 .. (t - 1) : ~ TokenIsEnd(u, b)) =>
                \A u \in DOMAIN result.mask : result.mask[u][b] <=> (u <= t)

\* C6: the teacher-forced unroll emits min(max_output_len, time extent of
\* the reference) logits entries, as many as the reference targets and mask
\* of the training loss have rows.
C6_TrainLength ==
    (train_mode /\ Halted) =>
        /\ Cardinality(DOMAIN logits) =
              Min(max_output_len, Cardinality(DOMAIN train_inputs))
        /\ pc = "done" => DOMAIN result.logits = DOMAIN train_padding

C6_Witness ==
    /\ train_mode
    /\ pc = "done"
    /\ batch_size = 2
    /\ max_output_len = 3
    /\ Cardinality(DOMAIN train_inputs) = 2
    /\ train_inputs[0][2] = END_TOKEN_INDEX
    /\ Cardinality(DOMAIN result.logits) = 2

\* C7: the input token a step stores is the reference row train_inputs[step]
\* in teacher forcing and an index of the largest logit of the step in
\* free-running mode; the mode never changes.
C7_NextInput ==
    [][/\ train_mode' = train_mode
       /\ step' = step + 1 =>
            IF train_mode
            THEN input_symbol' = train_inputs[step]
            ELSE \A b \in Batch : \A k \in vocabulary :
                    logits'[step][b][k] <= logits'[step][b][input_symbol'[b]]
      ]_vars

\* A teacher-forced step stored a reference token that is not the argmax of
\* its logits.
C7_Witness ==
    /\ train_mode
    /\ step >= 1
    /\ \E b \in Batch : \E k \in vocabulary :
          prev_logits[b][k] > prev_logits[b][input_symbol[b]]

\* C8: every decoded id is the argmax over the indices 1 .. V-1, so it lies
\* in [0, V) and is never the padding index 0.
C8_DecodedRange ==
    (pc = "done" /\ ~ train_mode) =>
        \A t \in DOMAIN decoded : \A b \in Batch :
            /\ decoded[t][b] \in vocabulary \ {PAD_TOKEN_INDEX}
            /\ \A k \in vocabulary \ {PAD_TOKEN_INDEX} :
                  result.logits[t][b][k] <= result.logits[t][b][decoded[t][b]]

\* A decoded step whose largest logit is at index 0.
C8_Witness ==
    /\ pc = "done"
    /\ ~ train_mode
    /\ \E t \in DOMAIN decoded : \E b \in Batch :
          /\ \A k \in vocabulary :
                result.logits[t][b][k] <= result.logits[t][b][PAD_TOKEN_INDEX]
          /\ decoded[t][b] = UNK_TOKEN_INDEX

\* C9: the initial Loop State: step 0, start symbols, the initial state as
\* previous recurrent state and output, nothing finished, empty logits and
\* mask, one zero context per attention object, one seeded recurrent output.
C9_InitialLoopState ==
    step = 0 =>
        /\ DOMAIN input_symbol = Batch
        /\ \A b \in Batch : input_symbol[b] = START_TOKEN_INDEX
        /\ prev_rnn_state = initial_state
        /\ prev_rnn_output = initial_state
        /\ \A b \in Batch : ~ finished[b]
        /\ DOMAIN logits = {}
        /\ DOMAIN mask = {}
        /\ Len(prev_contexts) = Len(att_objects)
        /\ \A i \in DOMAIN att_objects :
              prev_contexts[i] = ZeroContext(att_objects[i])
        /\ DOMAIN rnn_outputs = {0}
        /\ rnn_outputs[0] = initial_state

C9_Witness ==
    /\ step = 0
    /\ pc = "decoding"
    /\ batch_size = 2
    /\ Len(att_objects) = 2

\* C10: a step increments step by 1 and writes logits and mask at index step
\* and the recurrent output at index step + 1, the mask entry being the
\* negation of the updated finished flag; so logits and mask hold exactly
\* `step` entries, the recurrent outputs step + 1, and no entry is rewritten.
C10_Accumulators ==
    /\ [](/\ DOMAIN logits = 0 .. (step - 1)
          /\ DOMAIN mask = 0 .. (step - 1)
          /\ DOMAIN rnn_outputs = 0 .. step)
    /\ [][step' # step =>
            /\ step' = step + 1
            /\ \A t \in DOMAIN logits : logits'[t] = logits[t]
            /\ \A t \in DOMAIN mask : mask'[t] = mask[t]
            /\ \A t \in DOMAIN rnn_outputs : rnn_outputs'[t] = rnn_outputs[t]
            /\ logits'[step] = prev_logits'
            /\ rnn_outputs'[step + 1] = prev_rnn_output'
            /\ mask'[step] = [b \in Batch |-> ~ finished'[b]]
      ]_vars

C10_Witness ==
    /\ step = 3
    /\ DOMAIN logits = 0 .. 2
    /\ DOMAIN rnn_outputs = 0 .. 3
    /\ \E b \in Batch : mask[0][b] /\ ~ mask[2][b]

(***************************************************************************)
(* Properties of the attention histories.                                  *)
(***************************************************************************)
\* The key of the unroll an attention object belongs to.
KeyOf(a) == IF a[1] = "train" THEN "decoder_train" ELSE "decoder_run"

\* No history registered so far is replaced or dropped by the step.
HistoriesKept ==
    \A a \in DOMAIN histories : \A k \in DOMAIN histories[a] :
        /\ k \in DOMAIN histories'[a]
        /\ histories'[a][k] = histories[a][k]

\* C11: the teacher-forced unroll registers its attention history under
\* "<name>_train" on the training attention objects only, the free-running
\* unroll under "<name>_run" on the runtime attention objects only, and in
\* whichever order the two unrolls are built, a history once registered is
\* never overwritten.
C11_SeparateHistories ==
    /\ [](\A a \in DOMAIN histories :
            /\ DOMAIN histories[a] \subseteq {KeyOf(a)}
            /\ \A k \in DOMAIN histories[a] :
                  \A t \in DOMAIN histories[a][k] : histories[a][k][t].att = a
            /\ (a[1] = "train") \in built <=> DOMAIN histories[a] = {KeyOf(a)})
    /\ [][HistoriesKept]_vars

C11_Witness ==
    /\ built = BOOLEAN
    /\ \E e \in DOMAIN att_objects :
          /\ DOMAIN histories[<<"train", e>>] = {"decoder_train"}
          /\ DOMAIN histories[<<"run", e>>] = {"decoder_run"}
          /\ Cardinality(DOMAIN histories[<<"train", e>>]["decoder_train"])
                 > Cardinality(DOMAIN histories[<<"run", e>>]["decoder_run"])
          /\ Cardinality(DOMAIN histories[<<"run", e>>]["decoder_run"]) > 0

\* The places of the finalize_loop calls of object a under the key.
CallsOf(a, key) ==
    {n \in DOMAIN finalize_log :
        finalize_log[n].obj = a /\ finalize_log[n].key = key}

\* Object a was finalized exactly once under the key, with the loop state ls.
FinalizedOnceWith(a, key, ls) ==
    /\ Cardinality(CallsOf(a, key)) = 1
    /\ \A n \in CallsOf(a, key) : finalize_log[n].last_loop_state = ls

\* C12: no attention object of an unroll is finalized before the loop has
\* halted; once the unroll is built, each of its attention objects has been
\* finalized exactly once, with its own final loop state and the unroll's
\* key, and a hierarchical attention has finalized every child with the
\* matching child loop state before registering its own top-level history.
C12_FinalizedOnce ==
    /\ \A a \in DOMAIN histories, key \in {"decoder_train", "decoder_run"} :
          Cardinality(CallsOf(a, key)) <= 1
    /\ pc \in {"decoding", "finalize", "error"} =>
          \A n \in DOMAIN finalize_log : finalize_log[n].key # att_history_key
    /\ pc = "done" =>
          /\ ~ loop_exit_criterion
          /\ \A i \in DOMAIN att_objects :
                LET a == att_objects[i]
                    ls == attention_loop_states[i]
                IN  /\ FinalizedOnceWith(a, att_history_key, ls)
                    /\ histories[a][att_history_key]
                           = TAStack(OwnLoopState(a, ls).weights)
                    /\ att_types[a[2]].type = HIERARCHICAL =>
                          \A c \in DOMAIN ChildAttentionObjects(a) :
                              LET child == ChildAttentionObjects(a)[c]
                              IN  /\ FinalizedOnceWith(child, att_history_key,
                                                       ls.child_loop_states[c])
                                  /\ \A n \in CallsOf(child, att_history_key),
                                        m \in CallsOf(a, att_history_key) :
                                        n < m

C12_Witness ==
    /\ pc = "done"
    /\ built = BOOLEAN
    /\ Len(att_objects) = 2
    /\ att_types[1].type = HIERARCHICAL
    /\ att_types[2].type = FLAT
    /\ Cardinality(DOMAIN histories[att_objects[1]][att_history_key]) = 2
    /\ Len(finalize_log) = 2 * (WrappedEncoders + 2)

(***************************************************************************)
(* Properties of the losses.                                               *)
(***************************************************************************)
\* The free-running unroll is built and the references were fed.
RuntimeLossDefined == pc = "done" /\ ~ train_mode /\ train_inputs # None

\* C13: the runtime loss is computed over the first min(reference length,
\* free-running length) steps only: the logits, the targets and the weights
\* are all cut to that length, unchanged up to it, and nothing is padded.
C13_RuntimeLossTruncated ==
    RuntimeLossDefined =>
        LET n == Min(Cardinality(DOMAIN train_inputs),
                     Cardinality(DOMAIN result.logits))
        IN  \A b \in Batch :
                /\ DOMAIN runtime_loss.logits[b] = 0 .. (n - 1)
                /\ DOMAIN runtime_loss.targets[b] = 0 .. (n - 1)
                /\ DOMAIN runtime_loss.weights[b] = 0 .. (n - 1)
                /\ \A t \in 0 .. (n - 1) :
                      /\ runtime_loss.logits[b][t] = result.logits[t][b]
                      /\ runtime_loss.targets[b][t] = train_inputs[t][b]
                      /\ runtime_loss.weights[b][t] = train_padding[t][b]

C13_Witness ==
    /\ RuntimeLossDefined
    /\ batch_size = 2
    /\ Cardinality(DOMAIN train_inputs) = 3
    /\ Cardinality(DOMAIN result.logits) = 2
    /\ DOMAIN runtime_loss.targets[1] = 0 .. 1

(***************************************************************************)
(* Properties of the construction and of feed_dict.                        *)
(***************************************************************************)
Constructing == call.op = "Decoder.__init__" /\ call.returned

\* Neither an embedding size nor an embeddings source is given.
NoEmbedding ==
    call.args.embedding_size = None /\ call.args.embeddings_source = None

\* The hidden size is known: it is given, or it is taken from the encoders.
RnnSizeKnown ==
    \/ call.args.rnn_size # None
    \/ call.args.encoder_projection = None /\ call.args.encoders # << >>

BadCell == call.args.rnn_cell \notin {"GRU", "LSTM"}

\* The construction failed on a validation of the arguments, with no graph.
FailedWith(type, check) ==
    /\ call.out.error = Raised(type, check)
    /\ ~ call.out.graph
    /\ ~ call.out.constructed

\* C14 as stated: a ValueError whenever no embedding is given or the cell
\* name is not recognized.
C14_ValueErrors ==
    Constructing =>
        /\ NoEmbedding => FailedWith("ValueError", "embedding_size")
        /\ ~ NoEmbedding /\ BadCell => FailedWith("ValueError", "rnn_cell")
        /\ ~ NoEmbedding /\ ~ BadCell => call.out.error.type # "ValueError"

\* C14, amended: the construction fails before any graph is built with a
\* ValueError when no embedding is given, and when the cell name is not
\* recognized and the hidden size is known; with an unrecognized cell name
\* and an unknown hidden size it fails with the AssertionError of the
\* hidden-size check, which comes first; with an embedding given and a
\* recognized cell name no ValueError is raised.
C14_ValueErrorsAmended ==
    Constructing =>
        /\ NoEmbedding => FailedWith("ValueError", "embedding_size")
        /\ ~ NoEmbedding /\ BadCell /\ RnnSizeKnown =>
              FailedWith("ValueError", "rnn_cell")
        /\ ~ NoEmbedding /\ BadCell /\ ~ RnnSizeKnown =>
              FailedWith("AssertionError", "rnn_size")
        /\ ~ NoEmbedding /\ ~ BadCell => call.out.error.type # "ValueError"

C14_Witness ==
    /\ Constructing
    /\ ~ NoEmbedding
    /\ BadCell
    /\ ~ RnnSizeKnown
    /\ call.args.encoders # << >>
    /\ call.out.error = Raised("AssertionError", "rnn_size")

\* C15: whenever encoder_projection is omitted and the hidden size cannot
\* be determined (none is given and there is no encoder to take it from),
\* the construction aborts before any graph is built, and every decoder
\* that is constructed has a hidden size.
C15_HiddenSizeKnown ==
    Constructing =>
        /\ call.args.encoder_projection = None /\ ~ RnnSizeKnown =>
              /\ ~ call.out.constructed
              /\ ~ call.out.graph
              /\ call.out.error.type # "none"
              /\ ~ NoEmbedding => FailedWith("AssertionError", "rnn_size")
        /\ call.out.constructed =>
              /\ call.out.rnn_size # None
              /\ call.out.rnn_size[1] >= 1

C15_Witness ==
    /\ Constructing
    /\ call.args.encoder_projection = None
    /\ call.args.encoders = << >>
    /\ call.args.rnn_size = None
    /\ ~ NoEmbedding
    /\ call.args.rnn_cell = "GRU"
    /\ call.out.error = Raised("AssertionError", "rnn_size")

Fed == call.op = "Decoder.feed_dict" /\ call.returned

\* C16: feed_dict raises a ValueError and returns no feed dictionary when
\* train is true and the dataset has no references; when train is false and
\* it has none, feed_dict feeds the train-mode flag and the start symbols
\* only; when it has references, the reference inputs and their mask are
\* fed as well, in either mode.
C16_FeedDict ==
    Fed =>
        /\ call.args.sentences = None /\ call.args.train =>
              /\ call.out.error = Raised("ValueError", "sentences")
              /\ call.out.fd = None
        /\ call.args.sentences = None /\ ~ call.args.train =>
              /\ call.out.error = NoError
              /\ DOMAIN call.out.fd = {"train_mode", "go_symbols"}
              /\ call.out.fd.train_mode = FALSE
              /\ call.out.fd.go_symbols = [b \in Batch |-> START_TOKEN_INDEX]
        /\ call.args.sentences # None =>
              /\ call.out.error = NoError
              /\ DOMAIN call.out.fd =
                     {"train_mode", "go_symbols", "train_inputs", "train_padding"}
              /\ call.out.fd.train_mode = call.args.train
              /\ call.out.fd.go_symbols = [b \in Batch |-> START_TOKEN_INDEX]
              /\ DOMAIN call.out.fd.train_inputs # {}
              /\ DOMAIN call.out.fd.train_padding
                     = DOMAIN call.out.fd.train_inputs

C16_Witness ==
    /\ Fed
    /\ call.args.sentences = None
    /\ call.args.train
    /\ batch_size = 2
    /\ call.out.error.type = "ValueError"

(***************************************************************************)
(* Properties of the attention combination.                                *)
(***************************************************************************)
FlatStepped == call.op = "FlatMultiAttention.attention" /\ call.returned

\* The concatenated mask and exponentials of the step's row.
RowMask == masks_concat(call.args.encoders, call.args.use_sentinels)

RowExps ==
    ExpLogits(call.args.encoders, call.args.use_sentinels,
              call.args.sentinel_exp)

\* The sum of the exponentials of the row, and of its valid positions: the
\* softmax mass of the valid positions is ValidExps / AllExps.
AllExps == SumSeq(RowExps)

ValidExps == SumSeq([i \in DOMAIN RowExps |-> RowExps[i] * RowMask[i]])

\* The masked positions have weight exactly 0.
MaskedAreZero ==
    \A i \in DOMAIN RowMask :
        RowMask[i] = 0 => call.out.attentions.nums[i] = 0

\* The weights sum to 1 - d with 0 <= d <= 1e-8.
SumWithinEpsilon ==
    LET sum == SumSeq(call.out.attentions.nums)
        den == call.out.attentions.den
    IN  /\ sum <= den
        /\ (den - sum) * EpsilonInverse <= den

\* A row whose mask is all zero has all-zero weights and a divisor that
\* is not zero.
ZeroRow ==
    (\A i \in DOMAIN RowMask : RowMask[i] = 0) =>
        /\ \A i \in DOMAIN RowMask : call.out.attentions.nums[i] = 0
        /\ call.out.norm.num > 0
        /\ call.out.norm.den > 0
        /\ call.out.attentions.den > 0

C18_BeamTiling ==
    FlatStepped /\ call.args.use_sentinels =>
        LET sentinel_batch == call.args.decoder_batch
            encoder_batch == call.args.encoders_batch
            untiled == encoder_projections_for_ctx(call.args.encoders,
                                                   encoder_batch)
        IN  /\ sentinel_batch % encoder_batch = 0 =>
                  /\ call.out.error.check # "assert_equal"
                  /\ \A k \in DOMAIN call.args.encoders :
                        /\ Len(call.out.tiled[k]) = sentinel_batch
                        /\ \A b \in 1 .. encoder_batch,
                              n \in 0 .. ((sentinel_batch \div encoder_batch) - 1) :
                              call.out.tiled[k][n * encoder_batch + b]
                                  = untiled[k][b]
                  /\ sentinel_batch = encoder_batch => call.out.tiled = untiled
                  /\ call.out.error = NoError =>
                        /\ DOMAIN call.out.contexts = 1 .. sentinel_batch
                        /\ \A b \in 1 .. sentinel_batch :
                              call.out.contexts[b].projections
                                  = Concat([k \in DOMAIN call.args.encoders |->
                                               call.out.tiled[k][b]])
                                    \o <<[sentinel |-> b]>>
            /\ sentinel_batch % encoder_batch # 0 =>
                  /\ call.out.error
                         = Raised("InvalidArgumentError", "assert_equal")
                  /\ call.out.contexts = None
                  /\ call.out.loop_state = None

C18_Witness ==
    /\ FlatStepped
    /\ call.args.use_sentinels
    /\ call.args.encoders_batch = 1
    /\ call.args.decoder_batch = 2
    /\ Len(call.args.encoders) = 2
    /\ call.out.error = NoError
    /\ DOMAIN call.out.contexts = 1 .. 2
    /\ call.out.tiled[2] = <<call.out.tiled[2][1], call.out.tiled[2][1]>>

\* The hierarchical attention objects of the unroll.
Hierarchical ==
    {i \in DOMAIN att_objects : att_types[att_objects[i][2]].type = HIERARCHICAL}

\* What the step of hierarchical attention i would give with the sentinel
\* switched the other way.
Switched(i) ==
    HierarchicalAttention(att_objects[i], attention_loop_states[i],
                          ~ att_types[att_objects[i][2]].use_sentinels)

\* C19: with the sentinel and without it, a step of a hierarchical
\* attention on the same decoder state, input, loop state and step gives
\* the same child contexts and the same child loop states; the top-level
\* softmax has one candidate more with the sentinel (the wrapped encoders,
\* plus one), and so the weights differ.
C19_SentinelLeavesChildren ==
    [][step' = step + 1 =>
        \A i \in Hierarchical :
            LET sentinel == att_types[att_objects[i][2]].use_sentinels
                children == DOMAIN ChildAttentionObjects(att_objects[i])
                candidates == prev_contexts'[i].candidates
            IN  /\ attention_loop_states'[i].child_loop_states
                       = Switched(i).loop_state.child_loop_states
                /\ [c \in children |-> candidates[c]]
                       = Switched(i).child_contexts
                /\ Len(candidates)
                       = WrappedEncoders + (IF sentinel THEN 1 ELSE 0)
                /\ Len(Switched(i).context.candidates)
                       = WrappedEncoders + (IF sentinel THEN 0 ELSE 1)
                /\ attention_loop_states'[i].loop_state.weights
                       # Switched(i).loop_state.loop_state.weights]_vars

C19_Witness ==
    /\ step = 2
    /\ Len(att_objects) = 2
    /\ Hierarchical = {1, 2}
    /\ att_types[1].use_sentinels
    /\ ~ att_types[2].use_sentinels
    /\ Len(prev_contexts[1].candidates) = Len(prev_contexts[2].candidates) + 1

(***************************************************************************)
(* Properties of the Loop State's frame.                                   *)
(***************************************************************************)
\* C20: no step of the loop, teacher-forced or free-running, modifies the
\* train_inputs of the Loop State: it stays the tensor the initial Loop
\* State was given.
C20_TrainInputsKept == [][train_inputs' = train_inputs]_vars

C20_Witness ==
    /\ train_mode
    /\ step = 2
    /\ batch_size = 2
    /\ Cardinality(DOMAIN train_inputs) = 3
    /\ input_symbol = train_inputs[1]

(***************************************************************************)
(* Properties settled last: the initial-state strategy, the conditional    *)
(* GRU, the teacher-forced alignment, the attention loop states, the slots *)
(* of the flat attention, the reference rows.                              *)
(***************************************************************************)
\* C21: a decoder that is constructed keeps a caller-supplied
\* encoder_projection (and the rnn_size given); otherwise with no encoders
\* it uses the empty initial state, with encoders and no rnn_size the
\* concatenation, rnn_size being the sum of the encoded sizes, and with
\* encoders and an rnn_size the linear projection, rnn_size unchanged.
C21_InitialStateStrategy ==
    Constructing /\ call.out.constructed =>
        LET a == call.args
        IN  /\ a.encoder_projection # None =>
                  /\ call.out.encoder_projection = a.encoder_projection
                  /\ call.out.rnn_size = a.rnn_size
            /\ a.encoder_projection = None /\ a.encoders = << >> =>
                  /\ call.out.encoder_projection = Some(empty_initial_state)
                  /\ call.out.rnn_size = a.rnn_size
            /\ a.encoder_projection = None /\ a.encoders # << >>
                  /\ a.rnn_size = None =>
                  /\ call.out.encoder_projection
                         = Some(concat_encoder_projection)
                  /\ call.out.rnn_size = Some(SumSizes(a.encoders))
            /\ a.encoder_projection = None /\ a.encoders # << >>
                  /\ a.rnn_size # None =>
                  /\ call.out.encoder_projection
                         = Some(linear_encoder_projection)
                  /\ call.out.rnn_size = a.rnn_size

C21_Witness ==
    /\ Constructing
    /\ call.out.constructed
    /\ call.args.encoder_projection = None
    /\ call.args.encoders = <<1, 2>>
    /\ call.args.rnn_size # None
    /\ call.out.encoder_projection = Some(linear_encoder_projection)
    /\ call.out.rnn_size = call.args.rnn_size

\* C22: after a step in conditional GRU mode, the recurrent output and the
\* recurrent state of the Loop State are both the values of the second
\* cell, not the first cell's.
C22_ConditionalRefined ==
    rnn_cell = "GRU" /\ conditional_gru /\ step >= 1 =>
        /\ prev_rnn_output = [cell |-> "cond_gru_2_cell", step |-> step - 1]
        /\ prev_rnn_state = [cell |-> "cond_gru_2_cell", step |-> step - 1]

\* C23: in a teacher-forced unroll the step at index t consumes the start
\* symbol when t = 0 and train_inputs[t - 1] otherwise, and hands
\* train_inputs[t] on as the next input; the loss pairs the logits written
\* at index t with the target train_inputs[t]; the last reference row is a
\* target only, no step consumes it.
C23_TeacherForcedAlignment ==
    /\ [][train_mode /\ step' = step + 1 =>
            /\ input_symbol = IF step = 0 THEN go_symbols
                              ELSE train_inputs[step - 1]
            /\ step - 1 < Cardinality(DOMAIN train_inputs) - 1
            /\ input_symbol' = train_inputs[step]
            /\ DOMAIN logits' = 0 .. step]_vars
    /\ [](train_mode /\ pc = "done" =>
            /\ DOMAIN result.logits = DOMAIN train_inputs
            /\ \A b \in Batch :
                  /\ DOMAIN train_xents.logits[b] = DOMAIN train_inputs
                  /\ DOMAIN train_xents.targets[b] = DOMAIN train_inputs
                  /\ \A t \in DOMAIN train_inputs :
                        /\ train_xents.logits[b][t] = logits[t][b]
                        /\ train_xents.targets[b][t] = train_inputs[t][b]
                        /\ train_xents.weights[b][t] = train_padding[t][b])

C23_Witness ==
    /\ train_mode
    /\ pc = "done"
    /\ batch_size = 2
    /\ step = 3
    /\ Cardinality(DOMAIN train_inputs) = 3
    /\ input_symbol = train_inputs[2]
    /\ train_xents.targets[1][2] = END_TOKEN_INDEX
    /\ train_xents.targets[2][2] = PAD_TOKEN_INDEX

\* The entries 0 .. n-1 of a tensor array are those the attention object a
\* wrote, one per step and each at the index of its step.
GrownBy(a, ta, n) ==
    /\ DOMAIN ta = 0 .. n - 1
    /\ \A t \in DOMAIN ta : ta[t].att = a /\ ta[t].step = t

\* C24: at every point of an unroll attention_loop_states has one entry per
\* attention object, in the objects' order, whose contexts and weights hold
\* exactly one entry per executed step, written at the step's index by that
\* object; after the loop every attention object's history of the unroll
\* has as many entries as there are logits, and each object was finalized
\* with the loop state at its own position.
C24_AttentionLoopStates ==
    pc # "error" =>
        /\ Len(attention_loop_states) = Len(att_objects)
        /\ \A i \in DOMAIN att_objects :
              LET a == att_objects[i]
                  own == OwnLoopState(a, attention_loop_states[i])
              IN  /\ GrownBy(a, own.contexts, step)
                  /\ GrownBy(a, own.weights, step)
                  /\ pc = "done" =>
                        /\ att_history_key \in DOMAIN histories[a]
                        /\ DOMAIN histories[a][att_history_key]
                               = DOMAIN result.logits
                        /\ \A t \in DOMAIN result.logits :
                              histories[a][att_history_key][t].att = a
                        /\ \E k \in DOMAIN finalize_log :
                              finalize_log[k] =
                                  [obj |-> a, key |-> att_history_key,
                                   last_loop_state |-> attention_loop_states[i]]

C24_Witness ==
    /\ pc = "done"
    /\ step = 3
    /\ Len(att_objects) = 2
    /\ att_types[1].type = FLAT
    /\ att_types[2].type = HIERARCHICAL
    /\ Cardinality(DOMAIN histories[att_objects[1]][att_history_key]) = 3
    /\ Cardinality(DOMAIN histories[att_objects[2]][att_history_key]) = 3
    /\ Cardinality(DOMAIN result.logits) = 3

\* The number of slots before those of encoder k, and of all encoders.
SlotsBefore(k) ==
    SumSeq([m \in 1 .. (k - 1) |-> Len(call.args.encoders[m])])

EncoderSlots == SlotsBefore(Len(call.args.encoders) + 1)

\* C25: in a step of a flat attention, slot SlotsBefore(k) + i of the
\* logits, of the mask and of every row of the context projections belongs
\* to position i of encoder k, and the weight of the slot is that
\* position's softmax numerator times its mask entry; with the sentinel
\* the three have one more slot, the last, which is the sentinel's, its
\* mask entry is 1 and the sum of the mask row is at least 1; without it
\* they end with the last encoder.
C25_SlotsAligned ==
    FlatStepped =>
        LET a == call.args
            slots == EncoderSlots + (IF a.use_sentinels THEN 1 ELSE 0)
        IN  /\ DOMAIN RowExps = 1 .. slots
            /\ DOMAIN RowMask = 1 .. slots
            /\ DOMAIN call.out.attentions.nums = 1 .. slots
            /\ \A k \in DOMAIN a.encoders : \A i \in DOMAIN a.encoders[k] :
                  LET j == SlotsBefore(k) + i
                  IN  /\ RowExps[j] = a.encoders[k][i].exp
                      /\ RowMask[j] = a.encoders[k][i].mask
                      /\ call.out.attentions.nums[j] =
                             a.encoders[k][i].exp * a.encoders[k][i].mask
                                 * EpsilonInverse
            /\ a.use_sentinels =>
                  /\ RowExps[slots] = a.sentinel_exp
                  /\ RowMask[slots] = 1
                  /\ SumSeq(RowMask) >= 1
                  /\ call.out.attentions.nums[slots] =
                         a.sentinel_exp * EpsilonInverse
            /\ call.out.error = NoError =>
                  \A b \in DOMAIN call.out.contexts :
                      LET ctx == call.out.contexts[b]
                      IN  /\ ctx.attentions = call.out.attentions
                          /\ DOMAIN ctx.projections = 1 .. slots
                          /\ \A k \in DOMAIN a.encoders :
                                \A i \in DOMAIN a.encoders[k] :
                                  LET p == ctx.projections[SlotsBefore(k) + i]
                                  IN  p.encoder = k /\ p.position = i
                          /\ a.use_sentinels =>
                                ctx.projections[slots] = [sentinel |-> b]

C25_Witness ==
    /\ FlatStepped
    /\ call.args.use_sentinels
    /\ call.out.error = NoError
    /\ call.args.encoders =
           <<<<[mask |-> 1, exp |-> 2]>>,
             <<[mask |-> 0, exp |-> 1], [mask |-> 1, exp |-> 1]>>>>
    /\ call.args.sentinel_exp = 2
    /\ RowMask = <<1, 0, 1, 1>>
    /\ call.out.attentions.nums =
           <<2 * EpsilonInverse, 0, EpsilonInverse, 2 * EpsilonInverse>>
    /\ call.out.contexts[1].projections[3] =
           [encoder |-> 2, row |-> 1, position |-> 2]

\* C26: a teacher-forced unroll over references as feed_dict feeds them
\* never fails on a reference row that does not exist: whenever the loop's
\* test holds, step is smaller than the number of reference rows, and the
\* step counter never passes that number.
C26_ReferenceInRange ==
    train_mode =>
        /\ pc # "error"
        /\ step <= Cardinality(DOMAIN train_inputs)
        /\ pc = "decoding" /\ loop_exit_criterion =>
              /\ step \in DOMAIN train_inputs
              /\ step < Cardinality(DOMAIN train_inputs)

C26_Witness ==
    /\ train_mode
    /\ pc = "done"
    /\ max_output_len = 2
    /\ batch_size = 2
    /\ step = 2
    /\ DOMAIN train_inputs = 0 .. 1
    /\ ~ finished[1]
    /\ finished[2]
    /\ train_inputs[1][1] # END_TOKEN_INDEX
    /\ DOMAIN result.logits = 0 .. 1

====
